---- MODULE Spec2Model ----
(***************************************************************************)
(* Model of scraper/main.py: one run of main() - the crawl of every       *)
(* source by scrape_source, the detail enrichment loop over               *)
(* enrich_with_details, and the write of data/listings.json and           *)
(* data/daily/<today>.json.                                                *)
(***************************************************************************)
EXTENDS Integers, Sequences, FiniteSets, TLC

\* ------------------------------------------------------------------ bounds
\* Listing ids the modelled catalog can show: Ids == 1..MaxId.
MaxId == 2
\* Largest number of rows parse_listings returns for one page.
MaxRows == 2
\* Largest positive page cap ("pages") drawn for the configuration.
MaxCap == 2
\* Number of entries of EXTRA_CATALOG_URLS the model keeps (the source has 10).
NumExtra == 1

\* Largest number of successive runs of main.
MaxRuns == 2

\* ------------------------------------------------------------- value sets
\* Python's None, and an absent dict key (item.get(k) is None for both).
None == "None"

Ids == 1..MaxId

\* The page counter is kept exactly up to MaxPage; the value MaxPage stands
\* for every page index >= MaxPage (every cap drawn is below it, so the cap
\* test of line 484 is exact).
MaxPage == MaxCap + 1

\* Detail payloads parse_detail_page can return, and str(e) of the exceptions
\* fetch / parse_detail_page can raise.
Details == {"d1", "d2"}
Errors == {"e1", "e2"}

\* One dict of parse_listings' result (lines 168-180): the id is never empty
\* (line 136), the url is None when the row has no anchor (line 143). The
\* catalog may show listing 1 with or without an anchor, the others with one.
Rows == [id : Ids, url : {"u"}] \cup {[id |-> 1, url |-> None]}

\* parse_listings' results: lists of 0..MaxRows rows, ids may repeat.
PageResults == UNION {[1..n -> Rows] : n \in 0..MaxRows}

\* DEFAULT_CONFIG / load_config: the keys main and scrape_source read.
\* base_url "" is the default (line 13); pages and max_details are ints of
\* either sign (lines 47, 51). A run of main draws max_details from
\* {0, 1} (no quota, or a quota the batch can exceed); the enrichment loop is
\* checked for every quota in EnrichConfigs.
Configs ==
    [base_url : {"", "base"},
     pages : (-1)..MaxCap,
     details : BOOLEAN,
     max_details : {0, 1}]

\* The quotas the enrichment loop is checked for, with and without the
\* "details" switch.
EnrichConfigs ==
    [base_url : {""},
     pages : {0},
     details : BOOLEAN,
     max_details : (-1)..MaxId]

AllExtra ==
    <<"hatchback", "sedan", "jeepeta", "camioneta", "coupe-deportivo",
      "motores", "barcos", "camion", "autobus", "otros">>

EXTRA_CATALOG_URLS == SubSeq(AllExtra, 1, NumExtra)

ZERO_NEW_LIMIT == 3

\* A store file on disk. doc "prev" is whatever the file held before this run
\* (a complete snapshot, or no file); doc "new" is a file this run opened for
\* writing: items are the records written so far, closed says that the whole
\* JSON document was written and the file closed.
Prev == [doc |-> "prev", items |-> <<>>, closed |-> TRUE]
Truncated == [doc |-> "new", items |-> <<>>, closed |-> FALSE]
Written(items) == [doc |-> "new", items |-> items, closed |-> TRUE]
Torn(items, k) == [doc |-> "new", items |-> SubSeq(items, 1, k), closed |-> FALSE]

NoResp == [kind |-> "none", rows |-> <<>>]
NoResult == [kind |-> "none", val |-> None]

VARIABLES
    cfg,              \* the effective configuration (load_config)
    pc,               \* position of main()
    sources,          \* main: sources
    si,               \* main: index of src in sources (for src in sources)
    page,             \* scrape_source: page
    zero_new_streak,  \* scrape_source: zero_new_streak
    resp,             \* scrape_source: outcome of fetch + parse_listings
    seen_ids,         \* main: seen_ids
    all_items,        \* main: all_items
    idx,              \* main: position of the enrichment loop (1-based)
    listings_json,    \* data/listings.json
    daily_json,       \* data/daily/<today>.json
    crawled,          \* history: indices of the sources whose page 0 was requested
    why,              \* history: the break that ended the scrape_source call that
                      \* has just returned ("none" once main has moved on)
    attempts,         \* history: ids whose detail page was requested, in order
    last_result,      \* history: outcome of the latest enrich_with_details call
    pre_enrich,       \* history: all_items as it was when enrichment began
    unslept,          \* history: the kind of the latest network call ("page",
                      \* "detail") when no time.sleep has followed it yet, else "none"
    run,              \* number of the run of main under way (1 for the first)
    ever_seen         \* history: the ids the earlier runs had in their batch

vars ==
    <<cfg, pc, sources, si, page, zero_new_streak, resp, seen_ids, all_items,
      idx, listings_json, daily_json, crawled, why, attempts, last_result,
      pre_enrich, unslept, run, ever_seen>>

crawlVars == <<si, page, zero_new_streak, resp, crawled, why>>
batchVars == <<seen_ids, all_items>>
enrichVars == <<idx, attempts, last_result, pre_enrich>>
fileVars == <<listings_json, daily_json>>
runVars == <<run, ever_seen>>

\* ------------------------------------------------------------------ helpers
Min(a, b) == IF a < b THEN a ELSE b

ItemIds(items) == [k \in 1..Len(items) |-> items[k].id]

\* A row as it is appended to all_items: no "detail", no "detail_error" key.
Item(row) == [id |-> row.id, url |-> row.url, detail |-> None, detail_error |-> None]

\* Mutant of Sources: an empty base_url leaves no source at all.
Sources_NoneWithoutBase(base_url) ==
    IF base_url = "" THEN <<>> ELSE <<base_url>> \o EXTRA_CATALOG_URLS

\* main, line 551.
Sources(base_url) ==
    IF base_url = "" THEN EXTRA_CATALOG_URLS ELSE <<base_url>> \o EXTRA_CATALOG_URLS

\* Mutant of AppendNew: seen_ids.add(_id) is forgotten.
RECURSIVE AppendNew_SeenNotUpdated(_, _, _, _)
AppendNew_SeenNotUpdated(items, seen, acc, nuevos) ==
    IF items = <<>>
    THEN [seen_ids |-> seen, all_items |-> acc, nuevos |-> nuevos]
    ELSE LET it == Head(items) IN
         IF it.id \in seen
         THEN AppendNew_SeenNotUpdated(Tail(items), seen, acc, nuevos)
         ELSE AppendNew_SeenNotUpdated(Tail(items), seen, Append(acc, Item(it)), nuevos + 1)

\* scrape_source, lines 510-519: the dedupe loop over one page's items.
RECURSIVE AppendNew(_, _, _, _)
AppendNew(items, seen, acc, nuevos) ==
    IF items = <<>>
    THEN [seen_ids |-> seen, all_items |-> acc, nuevos |-> nuevos]
    ELSE LET it == Head(items) IN
         IF it.id \in seen
         THEN AppendNew(Tail(items), seen, acc, nuevos)
         ELSE AppendNew(Tail(items), seen \cup {it.id}, Append(acc, Item(it)), nuevos + 1)

\* scrape_source, line 484.
CapReached(pages, p) == pages > 0 /\ p >= pages

\* Mutant of StreakAfter: a page with new ids does not reset the streak.
StreakAfter_NeverReset(nuevos, streak) == IF nuevos = 0 THEN streak + 1 ELSE streak

\* scrape_source, lines 524-530: the streak after a page with `nuevos` new ids.
StreakAfter(nuevos, streak) == IF nuevos = 0 THEN streak + 1 ELSE 0

\* scrape_source, line 532 (kept exactly below MaxPage, see MaxPage).
NextPage(p) == IF p < MaxPage THEN p + 1 ELSE MaxPage

\* Mutant of ItemsToEnrich: the slice is one item too long.
ItemsToEnrich_OneTooMany(items, max_details) ==
    IF max_details <= 0 THEN items ELSE SubSeq(items, 1, Min(max_details + 1, Len(items)))

\* main, lines 566-571.
ItemsToEnrich(items, max_details) ==
    IF max_details <= 0 THEN items ELSE SubSeq(items, 1, Min(max_details, Len(items)))

\* enrich_with_details, lines 460-463.
OnSuccess(item, detail) == [item EXCEPT !.detail = detail]

\* Mutant of OnFailure: the failure also drops the stored detail.
OnFailure_DropsDetail(item, e) ==
    [item EXCEPT !.detail = None, !.detail_error = IF @ = None THEN e ELSE @]

\* enrich_with_details, line 465: item.setdefault("detail_error", str(e)).
OnFailure(item, e) ==
    [item EXCEPT !.detail_error = IF @ = None THEN e ELSE @]

\* ------------------------------------------------------------------ Init
Init ==
    /\ cfg \in Configs
    /\ pc = "start"
    /\ sources = <<>>
    /\ si = 0
    /\ page = 0
    /\ zero_new_streak = 0
    /\ resp = NoResp
    /\ seen_ids = {}
    /\ all_items = <<>>
    /\ idx = 0
    /\ listings_json = Prev
    /\ daily_json = Prev
    /\ crawled = {}
    /\ why = "none"
    /\ attempts = <<>>
    /\ last_result = NoResult
    /\ pre_enrich = <<>>
    /\ unslept = "none"
    /\ run = 1
    /\ ever_seen = {}

\* Items as enrich_with_details may be handed them: with or without url, with
\* or without a "detail" and a "detail_error" from an earlier call (the payload
\* and error names are interchangeable, so the earlier ones are d1 and e1).
EnrichItems(id) ==
    [id : {id}, url : {None, "u"}, detail : {None, "d1"}, detail_error : {None, "e1"}]

\* Batches of 0..MaxId such items with distinct ids, the k-th having id k.
EnrichBatches ==
    UNION {{b \in [1..n -> UNION {EnrichItems(i) : i \in Ids}] :
                \A k \in 1..n : b[k].id = k} : n \in 0..MaxId}

\* main at line 561, the crawl over, with any batch in all_items.
EnrichInit ==
    /\ cfg \in EnrichConfigs
    /\ pc = "details"
    /\ sources = Sources(cfg.base_url)
    /\ si = Len(Sources(cfg.base_url)) + 1
    /\ page = 0
    /\ zero_new_streak = 0
    /\ resp = NoResp
    /\ all_items \in EnrichBatches
    /\ seen_ids = {all_items[k].id : k \in 1..Len(all_items)}
    /\ idx = 0
    /\ listings_json = Prev
    /\ daily_json = Prev
    /\ crawled = 1..Len(Sources(cfg.base_url))
    /\ why = "none"
    /\ attempts = <<>>
    /\ last_result = NoResult
    /\ pre_enrich = <<>>
    /\ unslept = "none"
    /\ run = 1
    /\ ever_seen = {}

\* ------------------------------------------------------------------ main: setup
\* main, lines 536-558: the configuration is read, the source list is built,
\* the batch starts empty and the loop over the sources begins.
Main ==
    /\ pc = "start"
    /\ sources' = Sources(cfg.base_url)
    /\ all_items' = <<>>
    /\ seen_ids' = {}
    /\ si' = 1
    /\ page' = 0
    /\ zero_new_streak' = 0
    /\ pc' = IF Sources(cfg.base_url) = <<>> THEN "details" ELSE "loop"
    /\ UNCHANGED <<cfg, resp, crawled, why, enrichVars, fileVars, runVars, unslept>>

\* scrape_source returns (a break of the while loop): main's for loop calls it
\* for the next source, with page and zero_new_streak initialised by lines
\* 479-480, or leaves the loop after the last source.
Return(reason) ==
    /\ why' = reason
    /\ si' = si + 1
    /\ page' = 0
    /\ zero_new_streak' = 0
    /\ resp' = NoResp
    /\ pc' = IF si < Len(sources) THEN "loop" ELSE "details"

\* scrape_source, line 484: the page cap ends the source.
CapBreak ==
    /\ pc = "loop"
    /\ CapReached(cfg.pages, page)
    /\ Return("cap")
    /\ UNCHANGED <<cfg, sources, batchVars, crawled, enrichVars, fileVars, runVars, unslept>>

\* scrape_source, lines 486-500: the page is requested; fetch raises after its
\* retries, or parse_listings returns the page's rows.
Fetch ==
    /\ pc = "loop"
    /\ ~CapReached(cfg.pages, page)
    /\ \E r \in {[kind |-> "error", rows |-> <<>>]}
                \cup {[kind |-> "rows", rows |-> rs] : rs \in PageResults} :
           /\ resp' = r
           /\ unslept' = IF r.kind = "error" THEN "none" ELSE "page"
    /\ crawled' = crawled \cup {si}
    /\ why' = "none"
    /\ pc' = "fetched"
    /\ UNCHANGED <<cfg, sources, si, page, zero_new_streak, batchVars,
                   enrichVars, fileVars, runVars>>

\* Mutant of FetchError: the exception ends the loop over the sources too.
FetchError_AbortsCrawl ==
    /\ pc = "fetched"
    /\ resp.kind = "error"
    /\ why' = "error"
    /\ si' = Len(sources) + 1
    /\ page' = 0
    /\ zero_new_streak' = 0
    /\ resp' = NoResp
    /\ pc' = "details"
    /\ UNCHANGED <<cfg, sources, batchVars, crawled, enrichVars, fileVars, runVars, unslept>>

\* scrape_source, lines 496-498: fetch raised; the source is given up.
FetchError ==
    /\ pc = "fetched"
    /\ resp.kind = "error"
    /\ Return("error")
    /\ UNCHANGED <<cfg, sources, batchVars, crawled, enrichVars, fileVars, runVars, unslept>>

\* scrape_source, lines 503-508: a page without rows ends the source.
PageEmpty ==
    /\ pc = "fetched"
    /\ resp.kind = "rows"
    /\ resp.rows = <<>>
    /\ Return("empty")
    /\ UNCHANGED <<cfg, sources, batchVars, crawled, enrichVars, fileVars, runVars, unslept>>

\* scrape_source, lines 510-533: the rows are deduplicated into all_items, the
\* streak of pages without new ids is updated and either ends the source or
\* the next page is due.
PageItems ==
    /\ pc = "fetched"
    /\ resp.kind = "rows"
    /\ resp.rows # <<>>
    /\ LET r == AppendNew(resp.rows, seen_ids, all_items, 0)
           streak == StreakAfter(r.nuevos, zero_new_streak)
       IN  /\ seen_ids' = r.seen_ids
           /\ all_items' = r.all_items
           /\ IF r.nuevos = 0 /\ streak >= ZERO_NEW_LIMIT
              THEN Return("streak") /\ UNCHANGED unslept
              ELSE /\ zero_new_streak' = streak
                   /\ unslept' = "none"
                   /\ page' = NextPage(page)
                   /\ resp' = NoResp
                   /\ pc' = "loop"
                   /\ UNCHANGED <<si, why>>
    /\ UNCHANGED <<cfg, sources, crawled, enrichVars, fileVars, runVars>>

\* ------------------------------------------------------------------ main: details
\* The slice main enriches: items_to_enrich holds the same dicts as all_items,
\* so it is all_items' prefix of that length.
NumToEnrich == Len(ItemsToEnrich(all_items, cfg.max_details))

\* main, lines 561-571: enrichment runs when it is enabled and the batch is
\* not empty; otherwise main goes straight to the write.
DetailsStart ==
    /\ pc = "details"
    /\ pc' = IF cfg.details /\ all_items # <<>> THEN "enrich" ELSE "save"
    /\ idx' = 1
    /\ pre_enrich' = all_items
    /\ why' = "none"
    /\ UNCHANGED <<cfg, sources, si, page, zero_new_streak, resp, crawled,
                   batchVars, attempts, last_result, fileVars, runVars, unslept>>

\* enrich_with_details, lines 454-455: an item without url is returned as it
\* is, without any request (and without the sleep).
EnrichNoUrl ==
    /\ pc = "enrich"
    /\ idx <= NumToEnrich
    /\ all_items[idx].url = None
    /\ last_result' = [kind |-> "no_url", val |-> None]
    /\ idx' = idx + 1
    /\ UNCHANGED <<cfg, pc, sources, crawlVars, batchVars, attempts, pre_enrich,
                   fileVars, runVars, unslept>>

\* enrich_with_details, lines 456-463 and 466: the detail page is fetched and
\* parsed; the payload is stored on the item.
EnrichOk ==
    /\ pc = "enrich"
    /\ idx <= NumToEnrich
    /\ all_items[idx].url # None
    /\ \E d \in Details :
        /\ all_items' = [all_items EXCEPT ![idx] = OnSuccess(@, d)]
        /\ last_result' = [kind |-> "ok", val |-> d]
    /\ attempts' = Append(attempts, all_items[idx].id)
    /\ idx' = idx + 1
    /\ unslept' = "none"
    /\ UNCHANGED <<cfg, pc, sources, crawlVars, seen_ids, pre_enrich, fileVars, runVars>>

\* enrich_with_details, lines 456-459 and 464-466: fetch (after its retries)
\* or parse_detail_page raises; the exception is caught.
EnrichFail ==
    /\ pc = "enrich"
    /\ idx <= NumToEnrich
    /\ all_items[idx].url # None
    /\ \E e \in Errors :
        /\ all_items' = [all_items EXCEPT ![idx] = OnFailure(@, e)]
        /\ last_result' = [kind |-> "error", val |-> e]
    /\ attempts' = Append(attempts, all_items[idx].id)
    /\ idx' = idx + 1
    /\ unslept' = "none"
    /\ UNCHANGED <<cfg, pc, sources, crawlVars, seen_ids, pre_enrich, fileVars, runVars>>

\* main, lines 573 and 578: the enrichment loop is exhausted.
DetailsDone ==
    /\ pc = "enrich"
    /\ idx > NumToEnrich
    /\ pc' = "save"
    /\ UNCHANGED <<cfg, sources, crawlVars, batchVars, enrichVars, fileVars, runVars, unslept>>

\* ------------------------------------------------------------------ main: write
\* main, lines 580-581: Path.write_text opens data/listings.json for writing,
\* which truncates it in place.
OpenListings ==
    /\ pc = "save"
    /\ listings_json' = Truncated
    /\ pc' = "write_listings"
    /\ UNCHANGED <<cfg, sources, crawlVars, batchVars, enrichVars, daily_json, runVars, unslept>>

\* main, line 581: the document is written and the file closed.
WriteListings ==
    /\ pc = "write_listings"
    /\ listings_json' = Written(all_items)
    /\ pc' = "save_daily"
    /\ UNCHANGED <<cfg, sources, crawlVars, batchVars, enrichVars, daily_json, runVars, unslept>>

\* main, lines 582-584: the daily snapshot is opened the same way.
OpenDaily ==
    /\ pc = "save_daily"
    /\ daily_json' = Truncated
    /\ pc' = "write_daily"
    /\ UNCHANGED <<cfg, sources, crawlVars, batchVars, enrichVars, listings_json, runVars, unslept>>

\* main, lines 584-585: the daily snapshot is written; main returns.
WriteDaily ==
    /\ pc = "write_daily"
    /\ daily_json' = Written(all_items)
    /\ pc' = "done"
    /\ UNCHANGED <<cfg, sources, crawlVars, batchVars, enrichVars, listings_json, runVars, unslept>>

\* The process dies during the save (killed, power loss, or an OSError of
\* mkdir / open / write that nothing catches). A write in progress leaves any
\* prefix of the document in the file.
Crash ==
    /\ pc \in {"save", "write_listings", "save_daily", "write_daily"}
    /\ pc' = "crashed"
    /\ listings_json' \in
         IF pc = "write_listings"
         THEN {Torn(all_items, k) : k \in 0..Len(all_items)}
         ELSE {listings_json}
    /\ daily_json' \in
         IF pc = "write_daily"
         THEN {Torn(all_items, k) : k \in 0..Len(all_items)}
         ELSE {daily_json}
    /\ UNCHANGED <<cfg, sources, crawlVars, batchVars, enrichVars, runVars, unslept>>

Next ==
    \/ Main
    \/ CapBreak
    \/ Fetch
    \/ FetchError
    \/ PageEmpty
    \/ PageItems
    \/ DetailsStart
    \/ EnrichNoUrl
    \/ EnrichOk
    \/ EnrichFail
    \/ DetailsDone
    \/ OpenListings
    \/ WriteListings
    \/ OpenDaily
    \/ WriteDaily
    \/ Crash

Spec == Init /\ [][Next]_vars

\* The enrichment loop of main (lines 561-578) over any batch.
EnrichNext ==
    \/ DetailsStart
    \/ EnrichNoUrl
    \/ EnrichOk
    \/ EnrichFail
    \/ DetailsDone

EnrichSpec == EnrichInit /\ [][EnrichNext]_vars

\* scrape_source, lines 486-500, for a source that never runs out of
\* listings: the page is fetched and holds rows whose ids lie outside Ids and
\* were never shown before.
FetchFresh ==
    /\ pc = "loop"
    /\ ~CapReached(cfg.pages, page)
    /\ resp' = [kind |-> "fresh", rows |-> <<>>]
    /\ crawled' = crawled \cup {si}
    /\ why' = "none"
    /\ pc' = "fetched"
    /\ unslept' = "page"
    /\ UNCHANGED <<cfg, sources, si, page, zero_new_streak, batchVars,
                   enrichVars, fileVars, runVars>>

\* scrape_source, lines 510-533, for such a page: nuevos > 0, so the streak is
\* reset and the next page is due. all_items and seen_ids are kept restricted
\* to Ids; the rows of such a page do not show in them.
PageFresh ==
    /\ pc = "fetched"
    /\ resp.kind = "fresh"
    /\ zero_new_streak' = StreakAfter(1, zero_new_streak)
    /\ page' = NextPage(page)
    /\ resp' = NoResp
    /\ pc' = "loop"
    /\ unslept' = "none"
    /\ UNCHANGED <<cfg, sources, si, why, crawled, batchVars, enrichVars, fileVars, runVars>>

LiveNext == Next \/ FetchFresh \/ PageFresh

\* main is a sequential program: it always takes its next step.
LiveSpec == Init /\ [][LiveNext]_vars /\ WF_vars(LiveNext)

\* ------------------------------------------------------------------ runs
\* Line 588: main is started again (the periodic job) after a run that ended
\* normally. Everything main holds is local and starts afresh (lines 536-555:
\* nothing is read from data/); only the files stay as the run left them.
NextRun ==
    /\ pc = "done"
    /\ run < MaxRuns
    /\ run' = run + 1
    /\ ever_seen' = ever_seen \cup seen_ids
    /\ pc' = "start"
    /\ sources' = <<>>
    /\ si' = 0
    /\ page' = 0
    /\ zero_new_streak' = 0
    /\ resp' = NoResp
    /\ seen_ids' = {}
    /\ all_items' = <<>>
    /\ idx' = 0
    /\ crawled' = {}
    /\ why' = "none"
    /\ attempts' = <<>>
    /\ last_result' = NoResult
    /\ pre_enrich' = <<>>
    /\ unslept' = "none"
    /\ UNCHANGED <<cfg, fileVars>>

RunsNext == Next \/ NextRun

\* Successive runs of main over the same data directory.
RunsSpec == Init /\ [][RunsNext]_vars

\* The records main persists besides data/listings.json and the daily
\* snapshot of the same batch: none (lines 580-584 are the only writes), so no
\* store holds the listings that are gone.
tombstone_store == <<>>

\* ================================================================== claims
CrawlOver == pc \notin {"start", "loop", "fetched"}

\* scrape_source returns in this step.
SourceEnds == pc \in {"loop", "fetched"} /\ si' = si + 1

IdsOf(items) == {items[k].id : k \in 1..Len(items)}

HasUrl(item) == item.url # None

\* The number of items the quota lets through: min(q, n) for q > 0, n otherwise.
Quota ==
    IF cfg.max_details > 0 /\ cfg.max_details < Len(all_items)
    THEN cfg.max_details
    ELSE Len(all_items)

\* ------------------------------------------------------------------ C1
\* C1: in every state of a run, no id occurs twice in all_items and seen_ids
\* is exactly the set of the ids in all_items.
C1_BatchIdsUnique ==
    /\ \A i, j \in 1..Len(all_items) : all_items[i].id = all_items[j].id => i = j
    /\ seen_ids = IdsOf(all_items)

\* A later source has just shown a page that only repeats ids of the batch.
C1_Witness ==
    /\ pc = "loop"
    /\ si >= 2
    /\ zero_new_streak >= 1
    /\ Len(all_items) = MaxId

\* ------------------------------------------------------------------ C2
\* Every row of the page fetched carries an id already seen in this run.
NoUnseenId == \A k \in 1..Len(resp.rows) : resp.rows[k].id \in seen_ids

StopsOnCap == pc = "loop" /\ cfg.pages > 0 /\ page >= cfg.pages
StopsOnEmptyPage == pc = "fetched" /\ resp.kind = "rows" /\ resp.rows = <<>>
StopsOnStreak ==
    /\ pc = "fetched"
    /\ resp.kind = "rows"
    /\ resp.rows # <<>>
    /\ NoUnseenId
    /\ zero_new_streak + 1 >= 3
StopsOnFetchFailure == pc = "fetched" /\ resp.kind = "error"

\* The pagination rules of one step, given the cases in which a source stops.
PaginationStep(stops) ==
    /\ pc \in {"loop", "fetched"} => (SourceEnds <=> stops)
    \* once stopped, no page of that source is requested again: only the
    \* current source is requested, and the loop never returns to a source
    /\ si' >= si
    /\ pc' = "fetched" => pc = "loop" /\ si' = si /\ ~stops
    \* the counter of consecutive pages without unseen ids
    /\ (pc = "fetched" /\ ~SourceEnds) =>
          zero_new_streak' = IF NoUnseenId THEN zero_new_streak + 1 ELSE 0
    /\ (pc' = "loop" /\ (pc = "start" \/ SourceEnds)) =>
          page' = 0 /\ zero_new_streak' = 0

\* C2 as stated: a source stops exactly on an empty page, on the page cap, or
\* on 3 consecutive non-empty pages without unseen ids.
C2_StopsExactlyOnThreeCases ==
    [][PaginationStep(StopsOnCap \/ StopsOnEmptyPage \/ StopsOnStreak)]_vars

\* C2 as amended: a source stops exactly on an empty page, on the page cap, on
\* 3 consecutive non-empty pages without unseen ids, or on a page fetch that
\* fails; no further page of it is requested afterwards; a page with an unseen
\* id resets the counter to 0, and the counter starts at 0 for each source.
C2_StopsExactlyOnFourCases ==
    [][PaginationStep(StopsOnCap \/ StopsOnEmptyPage \/ StopsOnStreak
                        \/ StopsOnFetchFailure)]_vars

\* A source has just been ended by its third page in a row without unseen ids.
C2_Witness ==
    /\ why = "streak"
    /\ all_items # <<>>

\* ------------------------------------------------------------------ C3
\* C3: the crawl is finite: whatever the page cap and whatever the sources
\* return, main eventually leaves the loop over the sources.
C3_CrawlIsFinite == <>CrawlOver

\* ------------------------------------------------------------------ C4
\* C4: a page fetch that fails ends only the current source: the batch is as
\* it was, no further page of that source is requested, the next source (if
\* any) starts at its page 0, and once the crawl is over every source of the
\* list has had its page 0 requested.
C4_FetchFailureEndsOnlyTheSource ==
    /\ [][(pc = "fetched" /\ resp.kind = "error") =>
            /\ all_items' = all_items
            /\ seen_ids' = seen_ids
            /\ crawled' = crawled
            /\ si' = si + 1
            /\ IF si < Len(sources)
               THEN pc' = "loop" /\ page' = 0 /\ zero_new_streak' = 0
               ELSE pc' = "details"]_vars
    /\ [][(pc = "loop" /\ pc' = "fetched") =>
            /\ si' = si
            /\ si \in 1..Len(sources)
            /\ (si \notin crawled => page = 0)]_vars
    /\ [](CrawlOver => crawled = 1..Len(sources))

\* The first source collected items and was then ended by a failed fetch; the
\* next source is about to be crawled and the items are in the batch.
C4_Witness ==
    /\ pc = "loop"
    /\ si = 2
    /\ si <= Len(sources)
    /\ why = "error"
    /\ page = 0
    /\ all_items # <<>>

\* ------------------------------------------------------------------ C5
Untouched(k) == all_items[k] = pre_enrich[k]

\* C5 as stated: with enrichment on, the ids that got a detail-fetch attempt
\* are exactly those of the first min(q, n) items (all n for q <= 0), in batch
\* order, and the items beyond the quota are as they were.
C5_FirstQuotaItemsAttempted ==
    (pc = "save" /\ cfg.details) =>
        /\ attempts = [k \in 1..Quota |-> all_items[k].id]
        /\ \A k \in (Quota + 1)..Len(all_items) : Untouched(k)

\* C5 as amended: with enrichment on, the ids that got a detail-fetch attempt
\* are exactly those of the items that have a url among the first min(q, n)
\* (among all n for q <= 0), in batch order; the items beyond the quota and
\* the items without url are as they were.
C5_FirstQuotaItemsWithUrlAttempted ==
    (pc = "save" /\ cfg.details) =>
        /\ attempts = ItemIds(SelectSeq(SubSeq(pre_enrich, 1, Quota), HasUrl))
        /\ \A k \in (Quota + 1)..Len(all_items) : Untouched(k)
        /\ \A k \in 1..Quota : ~HasUrl(pre_enrich[k]) => Untouched(k)

\* A quota smaller than the batch was used up, and the last item, beyond it,
\* still has the detail of an earlier call.
C5_Witness ==
    /\ pc = "save"
    /\ cfg.details
    /\ cfg.max_details > 0
    /\ cfg.max_details < Len(all_items)
    /\ Len(attempts) = cfg.max_details
    /\ all_items[Len(all_items)].detail # None

\* ------------------------------------------------------------------ C6
\* C6: a failed detail fetch leaves detail_error set on that item, its stored
\* detail as it was and every other item untouched; the loop goes on with the
\* next item; and at the end every item with a url within the quota was
\* attempted, whatever failed before it.
C6_DetailFailureIsolated ==
    /\ [][(pc = "enrich" /\ idx' = idx + 1 /\ last_result'.kind = "error") =>
            /\ pc' = "enrich"
            /\ all_items'[idx].detail_error # None
            /\ all_items'[idx].detail = all_items[idx].detail
            /\ \A k \in 1..Len(all_items) : k # idx => all_items'[k] = all_items[k]]_vars
    /\ []((pc = "save" /\ cfg.details) =>
            /\ idx = Quota + 1
            /\ \A k \in 1..Quota :
                  HasUrl(all_items[k]) =>
                      \E j \in 1..Len(attempts) : attempts[j] = all_items[k].id)

\* An item that had a detail failed in this run and kept it, and a later item
\* was then fetched successfully.
C6_Witness ==
    /\ pc = "save"
    /\ Len(attempts) >= 2
    /\ last_result.kind = "ok"
    /\ \E k \in 1..(Len(all_items) - 1) :
          /\ pre_enrich[k].detail_error = None
          /\ all_items[k].detail_error # None
          /\ all_items[k].detail = "d1"

\* ------------------------------------------------------------------ C7
\* C7: after a successful call the item holds the new detail and no
\* detail_error; after a failed call its detail_error is that failure's.
C7_SuccessClearsDetailError ==
    (pc \in {"enrich", "save"} /\ idx > 1) =>
        /\ last_result.kind = "ok" =>
              /\ all_items[idx - 1].detail = last_result.val
              /\ all_items[idx - 1].detail_error = None
        /\ last_result.kind = "error" =>
              all_items[idx - 1].detail_error = last_result.val

\* ------------------------------------------------------------------ C8
\* C8: data/listings.json is at every moment, and after a crash, either the
\* complete previous document or the complete new one.
C8_ListingsNeverTorn == listings_json \in {Prev, Written(all_items)}

C10_RunReachesTheWrite ==
    /\ <>(pc \in {"save", "write_listings", "save_daily", "write_daily",
                  "done", "crashed"})
    /\ [](pc = "done" =>
            /\ crawled = 1..Len(sources)
            /\ listings_json = Written(all_items)
            /\ daily_json = Written(all_items))

\* ------------------------------------------------------------------ C11
\* C11: a sleep separates every two consecutive calls to the same host: no
\* page is requested while the latest page fetch has not been followed by a
\* sleep, and no detail page is requested while the latest detail fetch has
\* not been followed by one.
C11_DelayBetweenCalls ==
    [][/\ (pc = "loop" /\ pc' = "fetched") => unslept # "page"
       /\ (pc = "enrich" /\ attempts' # attempts) => unslept # "detail"]_vars

\* ------------------------------------------------------------------ C12
\* The ids of the Active Store (data/listings.json) and of the Tombstone Store.
ActiveIds == IdsOf(listings_json.items)
TombstoneIds == IdsOf(tombstone_store)

\* C12: after every run that ended, every id observed in this or an earlier
\* run has its record in exactly one of the Active Store and the Tombstone
\* Store; an id of an earlier run that is absent from this run's batch is
\* kept, in the Tombstone Store.
C12_EveryIdStaysStored ==
    pc = "done" =>
        /\ \A id \in ever_seen \cup seen_ids :
              (id \in ActiveIds) # (id \in TombstoneIds)
        /\ \A id \in ever_seen \ seen_ids : id \in TombstoneIds

\* ------------------------------------------------------------------ C13
\* What a run observes of a listing (the attributes parse_listings yields).
Observed(item) == [id |-> item.id, url |-> item.url]

ObservedAll(items) == [k \in 1..Len(items) |-> Observed(items[k])]

\* The listing is in the store the previous run wrote, with the same attributes.
StoredUnchanged(item) ==
    \E k \in 1..Len(listings_json.items) :
        Observed(listings_json.items[k]) = Observed(item)

\* C13: in a later run, before the store is rewritten, no detail is fetched
\* for a listing the previous run stored with the same attributes; when the
\* whole batch is unchanged no detail fetch is attempted at all and the
\* records are those of the store.
C13_UnchangedBatchFetchesNoDetail ==
    (run > 1 /\ pc \in {"enrich", "save"}) =>
        /\ \A k \in 1..Len(all_items) :
              (\E j \in 1..Len(attempts) : attempts[j] = all_items[k].id)
                  => ~StoredUnchanged(all_items[k])
        /\ ObservedAll(all_items) = ObservedAll(listings_json.items) =>
              /\ attempts = <<>>
              /\ pc = "save" => all_items = listings_json.items

====
